---- MODULE Spec2Model ----
(***************************************************************************)
(* ChatTodoListWidget (chatTodoListWidget.ts): a collapsible, session      *)
(* scoped list of todos.  The state is the widget's fields and the style   *)
(* and content of the DOM nodes it owns; the storage the widget reads and  *)
(* writes through IChatTodoListService is a map from session identifier to *)
(* an ordered list of todos.  One action per public method, DOM listener   *)
(* or collaborator step; every action runs its handler to completion.      *)
(***************************************************************************)
EXTENDS Integers, Sequences, FiniteSets, TLC

VARIABLES
    storage,            \* the todo list storage: session id -> list of todos
    isExpanded,         \* this._isExpanded
    currentSessionId,   \* this._currentSessionId: <<>> (undefined) or <<id>>
    domDisplay,         \* this.domNode.style.display
    clearDisplay,       \* this.clearButtonContainer.style.display
    listDisplay,        \* this.todoListContainer.style.display
    ariaExpanded,       \* expandoElement's aria-expanded attribute
    expandIconClasses,  \* the chevron classes on the .expand-icon node
    items,              \* the .todo-item children of todoListContainer
    last,               \* what the most recent handler did (log of one call)
    redisplay,          \* the most recent updateTodoDisplay call and its fetch
    run                 \* the current run of consecutive toggles or clears

vars == <<storage, isExpanded, currentSessionId, domDisplay, clearDisplay,
          listDisplay, ariaExpanded, expandIconClasses, items, last, redisplay,
          run>>

----------------------------------------------------------------------------
(* Bounds and input sets *)

MaxLen == 3

MaxOffsetHeight == 2

MaxToggleRun == 3

MaxClearRun == 2

\* Session identifiers the host and the collaborators use.  The identifier
\* is a string; the empty string is one of them.
Sessions == {"", "s1", "s2"}

Undefined == <<>>

Some(id) == <<id>>

SessionArgs == {Undefined} \cup {Some(id) : id \in Sessions}

\* The todo records the collaborators store.
Todos ==
    { [title |-> "Review", status |-> "in-progress"] }

RECURSIVE SeqsUpTo(_, _)
SeqsUpTo(S, n) ==
    IF n = 0 THEN {<<>>}
    ELSE LET shorter == SeqsUpTo(S, n - 1)
         IN  shorter \cup {Append(l, x) : l \in shorter, x \in S}

TodoLists == SeqsUpTo(Todos, MaxLen)

\* Keys a keydown event on the header can carry.
Keys == {"Enter", " ", "Escape"}

----------------------------------------------------------------------------
(* The storage contract (IChatTodoListStorage) *)

\* getTodoList: the stored list, the empty list for a session without one.
GetTodoList(store, id) ==
    IF id \in DOMAIN store THEN store[id] ELSE <<>>

\* setTodoList: full replace of one session's list.
SetTodoList(store, id, todoList) ==
    [x \in (DOMAIN store) \cup {id} |-> IF x = id THEN todoList ELSE store[x]]

----------------------------------------------------------------------------
(* Pure helpers of the widget *)

\* JavaScript truthiness of a `string | undefined`: `!x` is true for
\* undefined and for the empty string.
Truthy(sessionId) ==
    /\ sessionId # Undefined
    /\ sessionId[1] # ""

GetStatusIconClass(status) ==
    CASE status = "completed" -> "codicon-check"
      [] status = "in-progress" -> "codicon-record"
      [] OTHER -> "codicon-circle-large-outline"

\* Variant of GetStatusIconColor without the 'in-progress' case.
GetStatusIconColor_NoInProgress(status) ==
    CASE status = "completed" -> "var(--vscode-charts-green)"
      [] OTHER -> "var(--vscode-foreground)"

GetStatusIconColor(status) ==
    CASE status = "completed" -> "var(--vscode-charts-green)"
      [] status = "in-progress" -> "var(--vscode-charts-blue)"
      [] OTHER -> "var(--vscode-foreground)"

\* One .todo-item node; index is the 0-based forEach index.
TodoElement(todo, index) ==
    [ iconClass |-> GetStatusIconClass(todo.status),
      color     |-> GetStatusIconColor(todo.status),
      label     |-> ToString(index + 1) \o ". " \o todo.title ]

\* Variant of RenderTodoList that does not empty the container first.
RenderTodoList_Appends(todoList) ==
    items \o [i \in 1..Len(todoList) |-> TodoElement(todoList[i], i - 1)]

\* renderTodoList: the container is emptied, then one node per todo.
RenderTodoList(todoList) ==
    [i \in 1..Len(todoList) |-> TodoElement(todoList[i], i - 1)]

\* What a height-change listener can read while the event fires.
Snapshot(dom, clear, list, expanded, its) ==
    [ domDisplay |-> dom, clearDisplay |-> clear, listDisplay |-> list,
      isExpanded |-> expanded, items |-> its ]

\* Variant of HeightOf without the hidden-root test.
HeightOf_NoHiddenTest(dom, offsetHeight) ==
    offsetHeight

\* get height(): 0 for a hidden root, else the measured offsetHeight.
HeightOf(dom, offsetHeight) ==
    IF dom = "none" THEN 0 ELSE offsetHeight

\* The widget root is laid out unless its own display is 'none'.
WidgetVisible ==
    domDisplay # "none"

\* The clear button container is a child of the header, itself a child of
\* the root: it is shown when the root is and its own display is not 'none'.
ClearControlVisible ==
    /\ WidgetVisible
    /\ clearDisplay # "none"

\* The list container is a child of the root: it is shown when the root is
\* and its own display is not 'none'.
ListBodyVisible ==
    /\ WidgetVisible
    /\ listDisplay # "none"

\* Variant of ToggleIconClasses that toggles both classes with the same force.
ToggleIconClasses_SameForce(classes, expanded) ==
    IF expanded
    THEN classes \cup {"codicon-chevron-down", "codicon-chevron-right"}
    ELSE classes \ {"codicon-chevron-down", "codicon-chevron-right"}

\* The chevron classes after classList.toggle(down, e), toggle(right, ~e).
ToggleIconClasses(classes, expanded) ==
    LET down == IF expanded THEN classes \cup {"codicon-chevron-down"}
                ELSE classes \ {"codicon-chevron-down"}
    IN  IF ~expanded THEN down \cup {"codicon-chevron-right"}
        ELSE down \ {"codicon-chevron-right"}

\* Variant of UpdateTodoDisplay whose empty-list branch leaves both display
\* flags as they are.
UpdateTodoDisplay_EmptyNotHidden(sessionId, store) ==
    IF ~Truthy(sessionId)
    THEN [ dom |-> "none", clear |-> "none", items |-> items,
           fetched |-> <<>>,
           events |-> <<Snapshot("none", "none", listDisplay, isExpanded, items)>> ]
    ELSE LET todoList == GetTodoList(store, sessionId[1])
         IN  IF Len(todoList) > 0
             THEN LET rendered == RenderTodoList(todoList)
                  IN  [ dom |-> "block", clear |-> "flex", items |-> rendered,
                        fetched |-> <<todoList>>,
                        events |-> <<Snapshot("block", "flex", listDisplay,
                                              isExpanded, rendered)>> ]
             ELSE [ dom |-> domDisplay, clear |-> clearDisplay, items |-> items,
                    fetched |-> <<todoList>>,
                    events |-> <<Snapshot(domDisplay, clearDisplay, listDisplay,
                                          isExpanded, items)>> ]

\* Variant of UpdateTodoDisplay whose no-session branch hides the root but
\* not the clear button container.
UpdateTodoDisplay_ClearNotHidden(sessionId, store) ==
    IF ~Truthy(sessionId)
    THEN [ dom |-> "none", clear |-> clearDisplay, items |-> items,
           fetched |-> <<>>,
           events |-> <<Snapshot("none", clearDisplay, listDisplay, isExpanded,
                                 items)>> ]
    ELSE LET todoList == GetTodoList(store, sessionId[1])
         IN  IF Len(todoList) > 0
             THEN LET rendered == RenderTodoList(todoList)
                  IN  [ dom |-> "block", clear |-> "flex", items |-> rendered,
                        fetched |-> <<todoList>>,
                        events |-> <<Snapshot("block", "flex", listDisplay,
                                              isExpanded, rendered)>> ]
             ELSE [ dom |-> "none", clear |-> "none", items |-> items,
                    fetched |-> <<todoList>>,
                    events |-> <<Snapshot("none", "none", listDisplay,
                                          isExpanded, items)>> ]

\* updateTodoDisplay, as the values it leaves behind: the two display
\* flags, the item nodes, the storage reads and the events fired.
UpdateTodoDisplay(sessionId, store) ==
    IF ~Truthy(sessionId)
    THEN [ dom |-> "none", clear |-> "none", items |-> items,
           fetched |-> <<>>,
           events |-> <<Snapshot("none", "none", listDisplay, isExpanded, items)>> ]
    ELSE LET todoList == GetTodoList(store, sessionId[1])
         IN  IF Len(todoList) > 0
             THEN LET rendered == RenderTodoList(todoList)
                  IN  [ dom |-> "block", clear |-> "flex", items |-> rendered,
                        fetched |-> <<todoList>>,
                        events |-> <<Snapshot("block", "flex", listDisplay,
                                              isExpanded, rendered)>> ]
             ELSE [ dom |-> "none", clear |-> "none", items |-> items,
                    fetched |-> <<todoList>>,
                    events |-> <<Snapshot("none", "none", listDisplay,
                                          isExpanded, items)>> ]

\* The log of one handler call.
Log(op, key, fetched, writes, events, result, prevented) ==
    [ op |-> op, key |-> key, fetched |-> fetched, writes |-> writes,
      events |-> events, result |-> result, defaultPrevented |-> prevented ]

\* The run of consecutive toggles (n) or clears: how many, and the expand
\* state and root display before the first toggle of the run.
RunStart(clears, expanded, list, dom) ==
    [ n |-> 0, clears |-> clears, isExpanded |-> expanded,
      listDisplay |-> list, domDisplay |-> dom ]

\* The record of one updateTodoDisplay call: the session it ran for and
\* what it fetched, if anything.
Redisplayed(sessionId, fetched) ==
    [ done |-> TRUE, sessionId |-> sessionId, fetched |-> fetched ]

----------------------------------------------------------------------------
(* Construction *)

Init ==
    /\ storage = [id \in {} |-> <<>>]
    /\ isExpanded = TRUE
    /\ currentSessionId = Undefined
    /\ domDisplay = "none"
    /\ clearDisplay = ""
    /\ listDisplay = (IF isExpanded THEN "block" ELSE "none")
    /\ ariaExpanded = "true"
    /\ expandIconClasses =
           {IF isExpanded THEN "codicon-chevron-down" ELSE "codicon-chevron-right"}
    /\ items = <<>>
    /\ last = Log("constructor", "", <<>>, <<>>, <<>>, <<>>, FALSE)
    /\ redisplay = [done |-> FALSE, sessionId |-> Undefined, fetched |-> <<>>]
    /\ run = RunStart(0, isExpanded, listDisplay, domDisplay)

----------------------------------------------------------------------------
(* Handlers *)

\* Variant of UpdateSessionId that expands the list on every session switch.
UpdateSessionId_ResetsExpanded(sessionId) ==
    LET d == UpdateTodoDisplay(sessionId, storage)
    IN  /\ currentSessionId' = sessionId
        /\ isExpanded' = TRUE
        /\ listDisplay' = "block"
        /\ ariaExpanded' = "true"
        /\ expandIconClasses' = ToggleIconClasses(expandIconClasses, TRUE)
        /\ domDisplay' = d.dom
        /\ clearDisplay' = d.clear
        /\ items' = d.items
        /\ last' = Log("updateSessionId", "", d.fetched, <<>>,
                       <<Snapshot(d.dom, d.clear, "block", TRUE, d.items)>>,
                       <<>>, FALSE)
        /\ redisplay' = Redisplayed(sessionId, d.fetched)
        /\ run' = RunStart(0, TRUE, "block", d.dom)
        /\ UNCHANGED storage

\* updateSessionId(sessionId)
UpdateSessionId(sessionId) ==
    LET d == UpdateTodoDisplay(sessionId, storage)
    IN  /\ currentSessionId' = sessionId
        /\ domDisplay' = d.dom
        /\ clearDisplay' = d.clear
        /\ items' = d.items
        /\ last' = Log("updateSessionId", "", d.fetched, <<>>, d.events, <<>>, FALSE)
        /\ redisplay' = Redisplayed(sessionId, d.fetched)
        /\ run' = RunStart(0, isExpanded, listDisplay, d.dom)
        /\ UNCHANGED <<storage, isExpanded, listDisplay, ariaExpanded, expandIconClasses>>

\* Variant of ToggleExpanded that leaves the list container's display alone.
ToggleExpanded_ListDisplayKept(op, key, prevented) ==
    LET expanded == ~isExpanded
    IN  /\ isExpanded' = expanded
        /\ expandIconClasses' = ToggleIconClasses(expandIconClasses, expanded)
        /\ ariaExpanded' = (IF expanded THEN "true" ELSE "false")
        /\ last' = Log(op, key, <<>>, <<>>,
                       <<Snapshot(domDisplay, clearDisplay, listDisplay, expanded,
                                  items)>>,
                       <<>>, prevented)
        /\ run' = [run EXCEPT !.n = @ + 1, !.clears = 0]
        /\ UNCHANGED <<storage, currentSessionId, domDisplay, clearDisplay, items,
                       redisplay, listDisplay>>

\* Variant of ToggleExpanded that sets the flag instead of flipping it.
ToggleExpanded_OnlyExpands(op, key, prevented) ==
    LET expanded == TRUE
        list == IF expanded THEN "block" ELSE "none"
    IN  /\ isExpanded' = expanded
        /\ expandIconClasses' = ToggleIconClasses(expandIconClasses, expanded)
        /\ ariaExpanded' = (IF expanded THEN "true" ELSE "false")
        /\ listDisplay' = list
        /\ last' = Log(op, key, <<>>, <<>>,
                       <<Snapshot(domDisplay, clearDisplay, list, expanded, items)>>,
                       <<>>, prevented)
        /\ run' = [run EXCEPT !.n = @ + 1, !.clears = 0]
        /\ UNCHANGED <<storage, currentSessionId, domDisplay, clearDisplay, items,
                       redisplay>>

\* Variant of ToggleExpanded that fires the event before it updates the list
\* container's display.
ToggleExpanded_FiresFirst(op, key, prevented) ==
    LET expanded == ~isExpanded
        list == IF expanded THEN "block" ELSE "none"
    IN  /\ isExpanded' = expanded
        /\ expandIconClasses' = ToggleIconClasses(expandIconClasses, expanded)
        /\ ariaExpanded' = (IF expanded THEN "true" ELSE "false")
        /\ listDisplay' = list
        /\ last' = Log(op, key, <<>>, <<>>,
                       <<Snapshot(domDisplay, clearDisplay, listDisplay, expanded,
                                  items)>>,
                       <<>>, prevented)
        /\ run' = [run EXCEPT !.n = @ + 1, !.clears = 0]
        /\ UNCHANGED <<storage, currentSessionId, domDisplay, clearDisplay, items,
                       redisplay>>

\* Variant of ToggleExpanded that ends with updateTodoDisplay() instead of
\* firing the event itself.
ToggleExpanded_Redisplays(op, key, prevented) ==
    LET expanded == ~isExpanded
        list == IF expanded THEN "block" ELSE "none"
        d == UpdateTodoDisplay(currentSessionId, storage)
    IN  /\ isExpanded' = expanded
        /\ expandIconClasses' = ToggleIconClasses(expandIconClasses, expanded)
        /\ ariaExpanded' = (IF expanded THEN "true" ELSE "false")
        /\ listDisplay' = list
        /\ domDisplay' = d.dom
        /\ clearDisplay' = d.clear
        /\ items' = d.items
        /\ last' = Log(op, key, d.fetched, <<>>,
                       <<Snapshot(d.dom, d.clear, list, expanded, d.items)>>,
                       <<>>, prevented)
        /\ redisplay' = Redisplayed(currentSessionId, d.fetched)
        /\ run' = [run EXCEPT !.n = @ + 1, !.clears = 0]
        /\ UNCHANGED <<storage, currentSessionId>>

\* toggleExpanded(), entered from the listener named by op and key.
ToggleExpanded(op, key, prevented) ==
    LET expanded == ~isExpanded
        list == IF expanded THEN "block" ELSE "none"
    IN  /\ isExpanded' = expanded
        /\ expandIconClasses' = ToggleIconClasses(expandIconClasses, expanded)
        /\ ariaExpanded' = (IF expanded THEN "true" ELSE "false")
        /\ listDisplay' = list
        /\ last' = Log(op, key, <<>>, <<>>,
                       <<Snapshot(domDisplay, clearDisplay, list, expanded, items)>>,
                       <<>>, prevented)
        /\ run' = [run EXCEPT !.n = @ + 1, !.clears = 0]
        /\ UNCHANGED <<storage, currentSessionId, domDisplay, clearDisplay, items,
                       redisplay>>

\* The 'click' listener of the header.
Click ==
    /\ run.n < MaxToggleRun
    /\ ToggleExpanded("click", "", FALSE)

\* Variant of Keydown that toggles on Enter only.
Keydown_EnterOnly(key) ==
    IF key = "Enter"
    THEN /\ run.n < MaxToggleRun
         /\ ToggleExpanded("keydown", key, TRUE)
    ELSE /\ last' = Log("keydown", key, <<>>, <<>>, <<>>, <<>>, FALSE)
         /\ run' = RunStart(0, isExpanded, listDisplay, domDisplay)
         /\ UNCHANGED <<storage, isExpanded, currentSessionId, domDisplay,
                        clearDisplay, listDisplay, ariaExpanded,
                        expandIconClasses, items, redisplay>>

\* The 'keydown' listener of the header.
Keydown(key) ==
    IF key = "Enter" \/ key = " "
    THEN /\ run.n < MaxToggleRun
         /\ ToggleExpanded("keydown", key, TRUE)
    ELSE /\ last' = Log("keydown", key, <<>>, <<>>, <<>>, <<>>, FALSE)
         /\ run' = RunStart(0, isExpanded, listDisplay, domDisplay)
         /\ UNCHANGED <<storage, isExpanded, currentSessionId, domDisplay,
                        clearDisplay, listDisplay, ariaExpanded,
                        expandIconClasses, items, redisplay>>

\* Variant of ClearAllTodos that writes the empty list and does not redisplay.
ClearAllTodos_NoRedisplay ==
    IF ~Truthy(currentSessionId)
    THEN /\ last' = Log("clearAllTodos", "", <<>>, <<>>, <<>>, <<>>, FALSE)
         /\ run' = RunStart(run.clears + 1, isExpanded, listDisplay, domDisplay)
         /\ UNCHANGED <<storage, isExpanded, currentSessionId, domDisplay,
                        clearDisplay, listDisplay, ariaExpanded,
                        expandIconClasses, items, redisplay>>
    ELSE /\ storage' = SetTodoList(storage, currentSessionId[1], <<>>)
         /\ last' = Log("clearAllTodos", "", <<>>,
                        <<[sessionId |-> currentSessionId[1], todoList |-> <<>>]>>,
                        <<>>, <<>>, FALSE)
         /\ run' = RunStart(run.clears + 1, isExpanded, listDisplay, domDisplay)
         /\ UNCHANGED <<isExpanded, currentSessionId, domDisplay, clearDisplay,
                        listDisplay, ariaExpanded, expandIconClasses, items,
                        redisplay>>

\* Variant of ClearAllTodos that redisplays before it tests for a session.
ClearAllTodos_RedisplayUnguarded ==
    LET store == IF Truthy(currentSessionId)
                 THEN SetTodoList(storage, currentSessionId[1], <<>>)
                 ELSE storage
        d == UpdateTodoDisplay(currentSessionId, store)
    IN  /\ storage' = store
        /\ domDisplay' = d.dom
        /\ clearDisplay' = d.clear
        /\ items' = d.items
        /\ last' = Log("clearAllTodos", "", d.fetched,
                       IF Truthy(currentSessionId)
                       THEN <<[sessionId |-> currentSessionId[1], todoList |-> <<>>]>>
                       ELSE <<>>,
                       d.events, <<>>, FALSE)
        /\ redisplay' = Redisplayed(currentSessionId, d.fetched)
        /\ run' = RunStart(run.clears + 1, isExpanded, listDisplay, d.dom)
        /\ UNCHANGED <<isExpanded, currentSessionId, listDisplay,
                       ariaExpanded, expandIconClasses>>

\* Variant of ClearAllTodos that removes the first todo instead of all.
ClearAllTodos_RemovesFirst ==
    IF ~Truthy(currentSessionId)
    THEN /\ last' = Log("clearAllTodos", "", <<>>, <<>>, <<>>, <<>>, FALSE)
         /\ run' = RunStart(run.clears + 1, isExpanded, listDisplay, domDisplay)
         /\ UNCHANGED <<storage, isExpanded, currentSessionId, domDisplay,
                        clearDisplay, listDisplay, ariaExpanded,
                        expandIconClasses, items, redisplay>>
    ELSE LET old == GetTodoList(storage, currentSessionId[1])
             rest == IF old = <<>> THEN <<>> ELSE Tail(old)
             store == SetTodoList(storage, currentSessionId[1], rest)
             d == UpdateTodoDisplay(currentSessionId, store)
         IN  /\ storage' = store
             /\ domDisplay' = d.dom
             /\ clearDisplay' = d.clear
             /\ items' = d.items
             /\ last' = Log("clearAllTodos", "", d.fetched,
                            <<[sessionId |-> currentSessionId[1], todoList |-> rest]>>,
                            d.events, <<>>, FALSE)
             /\ redisplay' = Redisplayed(currentSessionId, d.fetched)
             /\ run' = RunStart(run.clears + 1, isExpanded, listDisplay, d.dom)
             /\ UNCHANGED <<isExpanded, currentSessionId, listDisplay,
                            ariaExpanded, expandIconClasses>>

\* Variant of ClearAllTodos that empties the list of every stored session.
ClearAllTodos_ClearsEverySession ==
    IF ~Truthy(currentSessionId)
    THEN /\ last' = Log("clearAllTodos", "", <<>>, <<>>, <<>>, <<>>, FALSE)
         /\ run' = RunStart(run.clears + 1, isExpanded, listDisplay, domDisplay)
         /\ UNCHANGED <<storage, isExpanded, currentSessionId, domDisplay,
                        clearDisplay, listDisplay, ariaExpanded,
                        expandIconClasses, items, redisplay>>
    ELSE LET store == [x \in (DOMAIN storage) \cup {currentSessionId[1]} |-> <<>>]
             d == UpdateTodoDisplay(currentSessionId, store)
         IN  /\ storage' = store
             /\ domDisplay' = d.dom
             /\ clearDisplay' = d.clear
             /\ items' = d.items
             /\ last' = Log("clearAllTodos", "", d.fetched,
                            <<[sessionId |-> currentSessionId[1], todoList |-> <<>>]>>,
                            d.events, <<>>, FALSE)
             /\ redisplay' = Redisplayed(currentSessionId, d.fetched)
             /\ run' = RunStart(run.clears + 1, isExpanded, listDisplay, d.dom)
             /\ UNCHANGED <<isExpanded, currentSessionId, listDisplay,
                            ariaExpanded, expandIconClasses>>

\* clearAllTodos()
ClearAllTodos ==
    IF ~Truthy(currentSessionId)
    THEN /\ last' = Log("clearAllTodos", "", <<>>, <<>>, <<>>, <<>>, FALSE)
         /\ run' = RunStart(run.clears + 1, isExpanded, listDisplay, domDisplay)
         /\ UNCHANGED <<storage, isExpanded, currentSessionId, domDisplay,
                        clearDisplay, listDisplay, ariaExpanded,
                        expandIconClasses, items, redisplay>>
    ELSE LET store == SetTodoList(storage, currentSessionId[1], <<>>)
             d == UpdateTodoDisplay(currentSessionId, store)
         IN  /\ storage' = store
             /\ domDisplay' = d.dom
             /\ clearDisplay' = d.clear
             /\ items' = d.items
             /\ last' = Log("clearAllTodos", "", d.fetched,
                            <<[sessionId |-> currentSessionId[1], todoList |-> <<>>]>>,
                            d.events, <<>>, FALSE)
             /\ redisplay' = Redisplayed(currentSessionId, d.fetched)
             /\ run' = RunStart(run.clears + 1, isExpanded, listDisplay, d.dom)
             /\ UNCHANGED <<isExpanded, currentSessionId, listDisplay,
                            ariaExpanded, expandIconClasses>>

\* The clear button's onDidClick listener.
ClearButtonClick ==
    /\ run.clears < MaxClearRun
    /\ ClearAllTodos

\* The host reads `height`; offsetHeight is what the layout measures.
Height(offsetHeight) ==
    /\ last' = Log("height", "", <<>>, <<>>, <<>>,
                   <<HeightOf(domDisplay, offsetHeight)>>, FALSE)
    /\ run' = RunStart(0, isExpanded, listDisplay, domDisplay)
    /\ UNCHANGED <<storage, isExpanded, currentSessionId, domDisplay,
                   clearDisplay, listDisplay, ariaExpanded,
                   expandIconClasses, items, redisplay>>

\* Another collaborator replaces a session's stored list.
CollaboratorSetTodoList(id, todoList) ==
    /\ GetTodoList(storage, id) # todoList \/ id \notin DOMAIN storage
    /\ storage' = SetTodoList(storage, id, todoList)
    /\ last' = Log("collaborator", "", <<>>, <<>>, <<>>, <<>>, FALSE)
    /\ run' = RunStart(0, isExpanded, listDisplay, domDisplay)
    /\ UNCHANGED <<isExpanded, currentSessionId, domDisplay, clearDisplay,
                   listDisplay, ariaExpanded, expandIconClasses, items,
                   redisplay>>

Next ==
    \/ \E sessionId \in SessionArgs : UpdateSessionId(sessionId)
    \/ Click
    \/ \E key \in Keys : Keydown(key)
    \/ ClearButtonClick
    \/ \E offsetHeight \in 0..MaxOffsetHeight : Height(offsetHeight)
    \/ \E id \in Sessions, todoList \in TodoLists : CollaboratorSetTodoList(id, todoList)

Spec == Init /\ [][Next]_vars

----------------------------------------------------------------------------------------------------------------------------------------
(* The same widget over one session, with todos that differ in title and    *)
(* status (SpecRender) and with todos of every status (SpecStatus)          *)

MaxRenderLen == 3

MaxStatusLen == 1

RenderSessions == {"s1"}

RenderSessionArgs == {Undefined} \cup {Some(id) : id \in RenderSessions}

\* Two todos that differ in title and in status.
RenderTodos ==
    { [title |-> "Write spec", status |-> "completed"],
      [title |-> "Review", status |-> "in-progress"] }

RenderTodoLists == SeqsUpTo(RenderTodos, MaxRenderLen)

\* One todo per status of the enumeration, and one with a status outside it.
StatusTodos ==
    { [title |-> "Write spec", status |-> "completed"],
      [title |-> "Review", status |-> "in-progress"],
      [title |-> "Deploy", status |-> "not-started"],
      [title |-> "Triage", status |-> "blocked"] }

StatusTodoLists == SeqsUpTo(StatusTodos, MaxStatusLen)

NextRender ==
    \/ \E sessionId \in RenderSessionArgs : UpdateSessionId(sessionId)
    \/ Click
    \/ \E key \in Keys : Keydown(key)
    \/ ClearButtonClick
    \/ \E offsetHeight \in 0..MaxOffsetHeight : Height(offsetHeight)
    \/ \E id \in RenderSessions, todoList \in RenderTodoLists :
          CollaboratorSetTodoList(id, todoList)

SpecRender == Init /\ [][NextRender]_vars

NextStatus ==
    \/ \E sessionId \in RenderSessionArgs : UpdateSessionId(sessionId)
    \/ Click
    \/ \E key \in Keys : Keydown(key)
    \/ ClearButtonClick
    \/ \E offsetHeight \in 0..MaxOffsetHeight : Height(offsetHeight)
    \/ \E id \in RenderSessions, todoList \in StatusTodoLists :
          CollaboratorSetTodoList(id, todoList)

SpecStatus == Init /\ [][NextStatus]_vars

----------------------------------------------------------------------------
(* Properties *)

\* The list stored for the active session, the empty list without one.
StoredForCurrent ==
    IF currentSessionId = Undefined THEN <<>>
    ELSE GetTodoList(storage, currentSessionId[1])

\* The last handler toggled the list (click, or keydown of Enter or Space).
LastToggled ==
    \/ last.op = "click"
    \/ last.op = "keydown" /\ last.key \in {"Enter", " "}

\* The list body was visible before the first toggle of the current run.
RunBodyVisible ==
    /\ run.domDisplay # "none"
    /\ run.listDisplay # "none"

\* C1: right after updateSessionId(s) or clearAllTodos() returns, the widget
\* is visible exactly when s is defined and the list the storage holds for s
\* (the one the call is to fetch) is non-empty.  The code treats the empty
\* string as no session, so this fails for s = "" with a non-empty list.
C1_VisibleIffSessionListNonEmpty ==
    last.op \in {"updateSessionId", "clearAllTodos"} =>
        (WidgetVisible <=>
            (currentSessionId # Undefined /\ Len(StoredForCurrent) > 0))

\* C2 as stated: in every reachable state the widget is visible exactly when
\* currentSessionId is defined and the list now stored for it is non-empty.
C2_VisibleIffStoredListNonEmpty ==
    WidgetVisible <=>
        (currentSessionId # Undefined /\ Len(StoredForCurrent) > 0)

\* C2 amended: in every reachable state the widget is visible exactly when
\* currentSessionId is defined and the most recent redisplay fetched a
\* non-empty list for it; a list replaced by a collaborator since then does
\* not count until the next redisplay.
C2_VisibleIffLastFetchNonEmpty ==
    WidgetVisible <=>
        /\ currentSessionId # Undefined
        /\ redisplay.fetched # <<>>
        /\ Len(redisplay.fetched[1]) > 0

\* C2 witness: the widget is still visible although a collaborator has
\* emptied the stored list of the active session.
C2_Witness ==
    /\ WidgetVisible
    /\ last.op = "collaborator"
    /\ currentSessionId # Undefined
    /\ StoredForCurrent = <<>>

\* C3 as stated: from construction onward the clear button container's
\* display flag and the root's display flag never disagree.
C3_ClearFlagAgreesWithRootFlag ==
    (clearDisplay # "none") <=> (domDisplay # "none")

\* C3 amended: in every reachable state the clear control is shown exactly
\* when the widget is shown, and once a redisplay has run the two display
\* flags agree; between construction and the first redisplay the clear
\* container has no display flag of its own inside the hidden root.
C3_ClearVisibleIffWidgetVisible ==
    /\ ClearControlVisible <=> WidgetVisible
    /\ redisplay.done => ((clearDisplay # "none") <=> (domDisplay # "none"))
    /\ ~redisplay.done => (clearDisplay = "" /\ domDisplay = "none")

\* C3 witness: after a redisplay and a toggle the widget and the clear
\* control are both shown.
C3_Witness ==
    /\ redisplay.done
    /\ LastToggled
    /\ WidgetVisible
    /\ clearDisplay = "flex"

\* C4: in every reachable state the list body is visible exactly when
\* expanded is true and the widget is visible.
C4_ListBodyVisibleIffExpandedAndVisible ==
    ListBodyVisible <=> (isExpanded /\ WidgetVisible)

\* C4 witness: a collapsed list stays hidden inside a widget that a session
\* switch has just made visible.
C4_Witness ==
    /\ last.op = "updateSessionId"
    /\ WidgetVisible
    /\ ~isExpanded
    /\ ~ListBodyVisible

\* C5 as stated: after clearAllTodos() with a defined currentSessionId the
\* stored list of that session is empty, the list container holds no item
\* node, and the widget and the clear control are hidden.
C5_ClearAllEmptiesRenderedList ==
    (last.op = "clearAllTodos" /\ currentSessionId # Undefined) =>
        /\ StoredForCurrent = <<>>
        /\ items = <<>>
        /\ ~WidgetVisible
        /\ clearDisplay = "none"

\* C5 amended: clearAllTodos() with a non-empty currentSessionId writes the
\* empty list for that session and redisplays (one fetch, one event), with
\* the empty string it writes nothing; either way the widget and the clear
\* control are hidden afterwards and the item nodes in the list container
\* are the ones that were there before the call.
C5_ClearAllHidesAndKeepsItemNodes ==
    [][ (last'.op = "clearAllTodos" /\ currentSessionId # Undefined) =>
            /\ IF Truthy(currentSessionId)
               THEN /\ storage' = SetTodoList(storage, currentSessionId[1], <<>>)
                    /\ last'.writes =
                          <<[sessionId |-> currentSessionId[1], todoList |-> <<>>]>>
                    /\ last'.fetched = << <<>> >>
                    /\ Len(last'.events) = 1
               ELSE /\ storage' = storage
                    /\ last'.writes = <<>>
            /\ currentSessionId' = currentSessionId
            /\ domDisplay' = "none"
            /\ clearDisplay' = "none"
            /\ items' = items ]_vars

\* C5 witness: after a clear with an active session the store holds the
\* empty list, the widget is hidden and the old item nodes are still there.
C5_Witness ==
    /\ last.op = "clearAllTodos"
    /\ Truthy(currentSessionId)
    /\ last.writes # <<>>
    /\ StoredForCurrent = <<>>
    /\ ~WidgetVisible
    /\ Len(items) = MaxLen

\* C6: clearAllTodos() with currentSessionId undefined writes nothing,
\* reads nothing, fires no event and leaves the view state, the three
\* display flags and the item nodes as they were.
C6_ClearAllWithoutSessionIsNoOp ==
    [][ (last'.op = "clearAllTodos" /\ currentSessionId = Undefined) =>
            /\ UNCHANGED <<storage, isExpanded, currentSessionId, domDisplay,
                           clearDisplay, listDisplay, ariaExpanded,
                           expandIconClasses, items>>
            /\ last'.writes = <<>>
            /\ last'.fetched = <<>>
            /\ last'.events = <<>> ]_vars

\* C6 witness: a clear was clicked with no session while the store holds a
\* non-empty list.
C6_Witness ==
    /\ last.op = "clearAllTodos"
    /\ currentSessionId = Undefined
    /\ \E id \in DOMAIN storage : storage[id] # <<>>

\* C7: a clearAllTodos() that directly follows another leaves the store,
\* the visibility of widget, clear control and list body, the item nodes
\* and the height as the first call left them.
C7_ClearAllIdempotent ==
    [][ (last.op = "clearAllTodos" /\ last'.op = "clearAllTodos") =>
            /\ storage' = storage
            /\ WidgetVisible' = WidgetVisible
            /\ ClearControlVisible' = ClearControlVisible
            /\ clearDisplay' = clearDisplay
            /\ ListBodyVisible' = ListBodyVisible
            /\ items' = items
            /\ \A h \in 0..MaxOffsetHeight :
                  HeightOf(domDisplay', h) = HeightOf(domDisplay, h) ]_vars

\* C7 witness: two clears in a row with an active session that had items.
C7_Witness ==
    /\ last.op = "clearAllTodos"
    /\ run.clears = 2
    /\ Truthy(currentSessionId)
    /\ items # <<>>

\* C8: updateSessionId(undefined) hides the widget and the clear control
\* and makes the height 0 whatever was shown before; a height read on a
\* hidden widget returns 0, and no height read returns a negative number.
C8_NoSessionHidesAndHeightZero ==
    /\ (last.op = "updateSessionId" /\ currentSessionId = Undefined) =>
          /\ ~WidgetVisible
          /\ clearDisplay = "none"
          /\ \A h \in 0..MaxOffsetHeight : HeightOf(domDisplay, h) = 0
    /\ last.op = "height" =>
          /\ last.result[1] >= 0
          /\ ~WidgetVisible => last.result[1] = 0

\* C8 witness: the session was switched to undefined while the items of a
\* previously shown list are still in the container.
C8_Witness ==
    /\ last.op = "updateSessionId"
    /\ currentSessionId = Undefined
    /\ items # <<>>
    /\ \E id \in DOMAIN storage : storage[id] # <<>>

\* C9 as stated: expanded starts true, and after a run of consecutive
\* toggles the expanded flag and the list-body visibility are back at their
\* pre-run values when the run is even and inverted when it is odd.
C9_ToggleParityInvertsBodyVisibility ==
    /\ last.op = "constructor" => isExpanded
    /\ run.n > 0 =>
          IF run.n % 2 = 0
          THEN /\ isExpanded = run.isExpanded
               /\ ListBodyVisible = RunBodyVisible
          ELSE /\ isExpanded = ~run.isExpanded
               /\ ListBodyVisible = ~RunBodyVisible

\* C9 amended: expanded starts true, and after a run of consecutive toggles
\* the expanded flag, the list container's display and the list-body
\* visibility are back at their pre-run values when the run is even; when
\* it is odd the flag and the container's display are inverted, and the
\* list-body visibility is inverted exactly when the widget is visible (in
\* a hidden widget the list body stays invisible).
C9_ToggleParity ==
    /\ last.op = "constructor" => isExpanded
    /\ run.n > 0 =>
          IF run.n % 2 = 0
          THEN /\ isExpanded = run.isExpanded
               /\ listDisplay = run.listDisplay
               /\ ListBodyVisible = RunBodyVisible
          ELSE /\ isExpanded = ~run.isExpanded
               /\ listDisplay # run.listDisplay
               /\ (ListBodyVisible # RunBodyVisible) <=> WidgetVisible

\* C9 witness: three toggles in a row on a visible widget.
C9_Witness ==
    /\ run.n = 3
    /\ LastToggled
    /\ WidgetVisible

\* C10: every updateSessionId fires one height-change event, every
\* clearAllTodos with a defined currentSessionId fires one, every toggle
\* fires one, and no handler fires more than one.  clearAllTodos with the
\* empty string as currentSessionId fires none.
C10_OneHeightEventPerOperation ==
    /\ last.op = "updateSessionId" => Len(last.events) = 1
    /\ (last.op = "clearAllTodos" /\ currentSessionId # Undefined) =>
          Len(last.events) = 1
    /\ LastToggled => Len(last.events) = 1
    /\ Len(last.events) <= 1

\* The last handler redisplayed and fetched a non-empty list.
LastRenderedList ==
    /\ last.op \in {"updateSessionId", "clearAllTodos"}
    /\ last.fetched # <<>>
    /\ Len(last.fetched[1]) > 0

\* C11: after a redisplay that fetched a non-empty list, the item nodes are
\* one per record of that list, in its order, the record at 0-based index i
\* labelled "<i+1>. <title>" with the glyph and the color of its status,
\* whatever item nodes were in the container before.
C11_RenderedItemsAreTheFetchedList ==
    LastRenderedList =>
        LET fetched == last.fetched[1]
        IN  /\ Len(items) = Len(fetched)
            /\ \A k \in 1..Len(fetched) :
                  /\ items[k].label = ToString(k) \o ". " \o fetched[k].title
                  /\ items[k].iconClass = GetStatusIconClass(fetched[k].status)
                  /\ items[k].color = GetStatusIconColor(fetched[k].status)

\* C11 witness: the list "Review", "Write spec", "Review" was fetched and
\* rendered as three items in that order.
C11_Witness ==
    /\ LastRenderedList
    /\ Len(last.fetched[1]) = 3
    /\ <<items[1].label, items[2].label, items[3].label>> =
          <<"1. Review", "2. Write spec", "3. Review">>
    /\ items[2].iconClass = "codicon-check"

\* C12: every height-change event of the last handler was fired when the
\* display flags, the expanded flag and the item nodes already had the
\* values the handler returned with, so the height read inside the
\* listener is the height after the handler.
C12_EventsFiredAfterStateChange ==
    \A k \in 1..Len(last.events) :
        /\ last.events[k] =
              Snapshot(domDisplay, clearDisplay, listDisplay, isExpanded, items)
        /\ \A h \in 0..MaxOffsetHeight :
              HeightOf(last.events[k].domDisplay, h) = HeightOf(domDisplay, h)

\* C12 witness: a toggle collapsed the list of a visible widget and fired
\* its event.
C12_Witness ==
    /\ LastToggled
    /\ Len(last.events) = 1
    /\ WidgetVisible
    /\ ~isExpanded
    /\ last.events[1].listDisplay = "none"

\* C13: a toggle leaves currentSessionId, the store, the display flags of
\* the root and of the clear control and the item nodes unchanged and reads
\* and writes nothing in the store.
C13_ToggleIsViewStateOnly ==
    [][ LastToggled' =>
            /\ UNCHANGED <<currentSessionId, storage, domDisplay, clearDisplay,
                           items, redisplay>>
            /\ last'.fetched = <<>>
            /\ last'.writes = <<>> ]_vars

\* C13 witness: a toggle ran after a collaborator emptied the list of the
\* active session, and the widget is still shown with its items.
C13_Witness ==
    /\ LastToggled
    /\ Truthy(currentSessionId)
    /\ StoredForCurrent = <<>>
    /\ WidgetVisible
    /\ items # <<>>

\* C14: in every reachable state the indicator carries chevron-down and
\* nothing else when expanded, chevron-right and nothing else when
\* collapsed; aria-expanded spells the flag; the list container's own
\* display is 'block' when expanded and 'none' when collapsed.
C14_ExpandPresentationsAgree ==
    /\ expandIconClasses =
          (IF isExpanded THEN {"codicon-chevron-down"}
           ELSE {"codicon-chevron-right"})
    /\ ariaExpanded = (IF isExpanded THEN "true" ELSE "false")
    /\ listDisplay = (IF isExpanded THEN "block" ELSE "none")

\* C14 witness: the list was collapsed by a toggle.
C14_Witness ==
    /\ LastToggled
    /\ ~isExpanded
    /\ ariaExpanded = "false"
    /\ "codicon-chevron-right" \in expandIconClasses

\* C15: a click, an Enter keydown and a Space keydown each take the same
\* transition: the flag flips, the three presentations follow, nothing else
\* of the widget or the store changes and one event is fired; a keydown of
\* another key changes nothing and fires nothing.
C15_ActivationsToggleAlike ==
    [][ /\ LastToggled' =>
              /\ isExpanded' = ~isExpanded
              /\ listDisplay' = (IF isExpanded THEN "none" ELSE "block")
              /\ ariaExpanded' = (IF isExpanded THEN "false" ELSE "true")
              /\ expandIconClasses' =
                    (IF isExpanded THEN {"codicon-chevron-right"}
                     ELSE {"codicon-chevron-down"})
              /\ UNCHANGED <<storage, currentSessionId, domDisplay,
                             clearDisplay, items>>
              /\ last'.events =
                    <<Snapshot(domDisplay, clearDisplay, listDisplay',
                               isExpanded', items)>>
        /\ (last'.op = "keydown" /\ last'.key \notin {"Enter", " "}) =>
              /\ UNCHANGED <<storage, isExpanded, currentSessionId, domDisplay,
                             clearDisplay, listDisplay, ariaExpanded,
                             expandIconClasses, items>>
              /\ last'.events = <<>> ]_vars

\* C15 witness: a Space keydown toggled the list and fired one event.
C15_Witness ==
    /\ last.op = "keydown"
    /\ last.key = " "
    /\ last.defaultPrevented
    /\ Len(last.events) = 1
    /\ last.events[1].isExpanded = isExpanded

\* C16: every status maps to a pair: completed to (check, green),
\* in-progress to (record, blue), not-started and every other string to
\* (circle outline, foreground); glyph and color always fall in the same
\* one of the three classes.
C16_StatusMappingTotal ==
    LastRenderedList =>
        \A k \in 1..Len(last.fetched[1]) :
            LET status == last.fetched[1][k].status
                pair == <<items[k].iconClass, items[k].color>>
            IN  /\ status = "completed" =>
                      pair = <<"codicon-check", "var(--vscode-charts-green)">>
                /\ status = "in-progress" =>
                      pair = <<"codicon-record", "var(--vscode-charts-blue)">>
                /\ status \notin {"completed", "in-progress"} =>
                      pair = <<"codicon-circle-large-outline",
                               "var(--vscode-foreground)">>
                /\ pair \in { <<"codicon-check", "var(--vscode-charts-green)">>,
                              <<"codicon-record", "var(--vscode-charts-blue)">>,
                              <<"codicon-circle-large-outline",
                                "var(--vscode-foreground)">> }

\* C16 witness: a todo with a status outside the enumeration was rendered
\* with the pair of not-started.
C16_Witness ==
    /\ LastRenderedList
    /\ last.fetched[1][1].status = "blocked"
    /\ items[1].iconClass = "codicon-circle-large-outline"
    /\ items[1].color = "var(--vscode-foreground)"

\* C17: whenever the widget is visible, the most recent redisplay ran for
\* the current currentSessionId and the item nodes are the rendering of the
\* list it fetched; item nodes left from another session are in the
\* container only while the widget is hidden.
C17_VisibleItemsBelongToCurrentSession ==
    WidgetVisible =>
        /\ currentSessionId # Undefined
        /\ redisplay.done
        /\ redisplay.sessionId = currentSessionId
        /\ redisplay.fetched # <<>>
        /\ items = RenderTodoList(redisplay.fetched[1])

\* C17 witness: after a switch to an empty session and a toggle, the items
\* of the session shown before are still in the container and the widget
\* is hidden.
C17_Witness ==
    /\ LastToggled
    /\ Truthy(currentSessionId)
    /\ redisplay.fetched = << <<>> >>
    /\ items # <<>>
    /\ ~WidgetVisible
    /\ \E id \in DOMAIN storage :
          /\ Some(id) # currentSessionId
          /\ RenderTodoList(storage[id]) = items

\* C18: updateSessionId, the toggles and the height read never write to the
\* store; clearAllTodos writes at most once, the empty list under
\* currentSessionId, and leaves the list of every other session as it was.
C18_OnlyClearAllWritesStorage ==
    [][ /\ (last'.op \in {"updateSessionId", "click", "keydown", "height"}) =>
              /\ storage' = storage
              /\ last'.writes = <<>>
        /\ last'.op = "clearAllTodos" =>
              /\ \A id \in Sessions :
                    Some(id) # currentSessionId =>
                        /\ GetTodoList(storage', id) = GetTodoList(storage, id)
                        /\ (id \in DOMAIN storage') <=> (id \in DOMAIN storage)
              /\ storage' # storage => last'.writes # <<>>
              /\ last'.writes # <<>> =>
                    /\ currentSessionId # Undefined
                    /\ last'.writes =
                          <<[sessionId |-> currentSessionId[1], todoList |-> <<>>]>>
                    /\ storage' = SetTodoList(storage, currentSessionId[1], <<>>) ]_vars

\* C18 witness: a clear wrote the empty list for the active session while
\* another session keeps a non-empty list.
C18_Witness ==
    /\ last.op = "clearAllTodos"
    /\ last.writes # <<>>
    /\ \E id \in DOMAIN storage :
          /\ Some(id) # currentSessionId
          /\ storage[id] # <<>>

\* C19: only a toggle changes the expanded flag; updateSessionId and
\* clearAllTodos leave the flag and its three presentations as they were.
C19_OnlyToggleChangesExpanded ==
    [][ /\ isExpanded' # isExpanded => LastToggled'
        /\ last'.op \in {"updateSessionId", "clearAllTodos"} =>
              UNCHANGED <<isExpanded, listDisplay, ariaExpanded,
                          expandIconClasses>> ]_vars

\* C19 witness: a collapsed list is still collapsed after a clear has
\* hidden the widget.
C19_Witness ==
    /\ ~isExpanded
    /\ last.op = "clearAllTodos"
    /\ last.writes # <<>>
    /\ ~WidgetVisible

====
